---- MODULE Spec2Model ----
(***************************************************************************)
(* Model of the Light Git extension (src/src/extension.ts): the three      *)
(* commands registered by activate -- compareWithRevision, compareWithHash *)
(* and openRemote -- as one command invocation running against the editor, *)
(* the git command line tool, the quick pick and the timer queue.          *)
(*                                                                         *)
(* Strings are sequences of one-character strings, so that trim, split,    *)
(* replace, includes and the template literals are computed character by   *)
(* character as the JavaScript does.                                       *)
(***************************************************************************)
EXTENDS Integers, Sequences, FiniteSets, TLC

\* ------------------------------------------------------------------ bounds

\* Largest 0-indexed cursor line of the active editor.
MaxLine == 9
\* Most dereferences of the content locator in one invocation.
MaxFetches == 2
\* Latest clock value (seconds) at which time still advances with no timer pending.
MaxClock == 1

\* ------------------------------------------------- JavaScript string helpers

\* s has p at 1-based position i.
IsPrefixAt(s, p, i) ==
    /\ i >= 1
    /\ i + Len(p) - 1 <= Len(s)
    /\ \A k \in 1..Len(p) : s[i + k - 1] = p[k]

\* String.prototype.indexOf, 1-based; 0 when p does not occur.
IndexOf(s, p) ==
    IF \E i \in 1..(Len(s) + 1) : IsPrefixAt(s, p, i)
    THEN CHOOSE i \in 1..(Len(s) + 1) :
            /\ IsPrefixAt(s, p, i)
            /\ \A j \in 1..(i - 1) : ~IsPrefixAt(s, p, j)
    ELSE 0

\* String.prototype.includes
Includes(s, p) == IndexOf(s, p) # 0

\* String.prototype.startsWith
StartsWith(s, p) == IsPrefixAt(s, p, 1)

\* s ends with p (the `$` anchor of a regular expression without flags).
EndsWith(s, p) == Len(p) <= Len(s) /\ IsPrefixAt(s, p, Len(s) - Len(p) + 1)

\* String.prototype.replace with a string pattern: the FIRST occurrence only.
ReplaceFirst(s, p, r) ==
    LET i == IndexOf(s, p) IN
    IF i = 0 THEN s
    ELSE SubSeq(s, 1, i - 1) \o r \o SubSeq(s, i + Len(p), Len(s))

\* White space as String.prototype.trim sees it (the characters that occur here).
IsSpace(c) == c \in {" ", "\n", "\t"}

RECURSIVE TrimStart(_)
TrimStart(s) ==
    IF s # <<>> /\ IsSpace(Head(s)) THEN TrimStart(Tail(s)) ELSE s

RECURSIVE TrimEnd(_)
TrimEnd(s) ==
    IF s # <<>> /\ IsSpace(s[Len(s)]) THEN TrimEnd(SubSeq(s, 1, Len(s) - 1)) ELSE s

\* String.prototype.trim
Trim(s) == TrimEnd(TrimStart(s))

\* String.prototype.split with a one-character separator: "" splits to [""].
RECURSIVE Split(_, _)
Split(s, sep) ==
    LET i == IndexOf(s, <<sep>>) IN
    IF i = 0 THEN <<s>>
    ELSE <<SubSeq(s, 1, i - 1)>> \o Split(SubSeq(s, i + 1, Len(s)), sep)

\* Array.prototype.join with a one-character separator.
RECURSIVE Join(_, _)
Join(parts, sep) ==
    IF parts = <<>> THEN <<>>
    ELSE IF Len(parts) = 1 THEN parts[1]
    ELSE parts[1] \o <<sep>> \o Join(Tail(parts), sep)

Digits == <<"0", "1", "2", "3", "4", "5", "6", "7", "8", "9">>

\* Number to decimal string, as a template literal `${n}` prints it (n >= 0).
RECURSIVE ToStr(_)
ToStr(n) ==
    IF n < 10 THEN <<Digits[n + 1]>>
    ELSE ToStr(n \div 10) \o <<Digits[(n % 10) + 1]>>

\* --------------------------------------------------------- string literals

GitAt == <<"g", "i", "t", "@">>
HttpsScheme == <<"h", "t", "t", "p", "s", ":", "/", "/">>
DotGit == <<".", "g", "i", "t">>
GithubCom == <<"g", "i", "t", "h", "u", "b", ".", "c", "o", "m">>
GitlabCom == <<"g", "i", "t", "l", "a", "b", ".", "c", "o", "m">>
BitbucketOrg == <<"b", "i", "t", "b", "u", "c", "k", "e", "t", ".", "o", "r", "g">>
SlashBlob == <<"/", "b", "l", "o", "b", "/">>
SlashDashBlob == <<"/", "-", "/", "b", "l", "o", "b", "/">>
SlashSrc == <<"/", "s", "r", "c", "/">>
HashL == <<"#", "L">>
HashLines == <<"#", "l", "i", "n", "e", "s", "-">>
ErrorLoadingContent == <<"E", "r", "r", "o", "r", " ", "l", "o", "a", "d", "i", "n", "g">>

ToolError == <<"f", "a", "i", "l">>
ColonSpace == <<":", " ">>

\* ------------------------------------------------------------ environment

WorkspaceRoot == <<"/", "w">>
FileA == <<"/", "w", "/", "a">>
FileB == <<"/", "w", "/", "b">>
FileOutside == <<"/", "o">>

\* The optional uri argument of a command: absent, or a file reference.
NoUri == [present |-> FALSE, fsPath |-> <<>>]
Uris == {NoUri} \cup {[present |-> TRUE, fsPath |-> f] : f \in {FileA, FileB, FileOutside}}

\* vscode.window.activeTextEditor: absent, or an editor showing a document.
NoEditor == [present |-> FALSE, fileName |-> <<>>]
Editors == {NoEditor} \cup {[present |-> TRUE, fileName |-> f] : f \in {FileA, FileB}}

\* vscode.workspace.getWorkspaceFolder: the root enclosing the file, <<>> when none.
GetWorkspaceFolder(f) ==
    IF StartsWith(f, WorkspaceRoot \o <<"/">>) THEN WorkspaceRoot ELSE <<>>

\* path.relative(root, file) for a file below root.
Relative(root, f) == SubSeq(f, Len(root) + 2, Len(f))

\* What `git config --get remote.origin.url` can print.
RemoteHosts == {GithubCom, GitlabCom, BitbucketOrg, <<"h", ".", "i", "o">>}
RemotePaths == {<<"g", "/", "r">>, <<"m", "/">> \o GithubCom, <<"m", "/">> \o GitlabCom}
SshForm(h, p) == GitAt \o h \o <<":">> \o p \o DotGit
RemoteOutputs ==
    UNION {{SshForm(h, p) \o <<"\n">>,
            SshForm(h, p),
            HttpsScheme \o h \o <<"/">> \o p \o DotGit \o <<"\n">>,
            HttpsScheme \o h \o <<"/">> \o p \o <<"\n">>} : h \in RemoteHosts, p \in RemotePaths}

\* What `git branch --show-current` can print.
BranchOutputs == {<<"m", "a", "i", "n", "\n">>, <<"d", "e", "v", "\n">>}

\* What `git branch --format=... --sort=...` can print: nothing, blank lines only,
\* one branch, two branches, a line with a description after the name, two lines
\* with the same first word, and a blank line between two branches.
LogOutputs ==
    {<<>>,
     <<"\n">>,
     <<" ", "\n", " ">>,
     <<"a", "\n">>,
     <<"a", "\n", "b", "\n">>,
     <<"a", " ", "x", " ", "y", "\n">>,
     <<"a", "\n", "a", " ", "x", "\n">>,
     <<"b", "\n", " ", "\n", "a", "\n">>}

\* What the user can type into the quick pick, and what the clipboard can hold.
TypedTexts == {<<"d", "e", "a", "d">>, <<"a">>}
ClipboardTexts == {<<>>, <<" ", "\n">>, <<"d", "e", "a", "d", "\n">>}

GitCommands == {"branchList", "show", "remoteUrl", "currentBranch"}

\* ------------------------------------------------------------------ state

VARIABLES
    activeTextEditor,  \* vscode.window.activeTextEditor
    pc,                \* where the invocation's async function is suspended
    cmd,               \* the command invoked: "none" before the invocation
    filePath,          \* const filePath
    execs,             \* per git command: calls started, completed, and completed with a failure
    notifications,     \* showErrorMessage / showInformationMessage calls, in order
    logOutput,         \* stdout of the branch listing
    items,             \* const items: the quick pick's rows
    quickPick,         \* the quick pick: shown, value, selectedItems, disposed, events fired
    promise,           \* the promise awaited at line 48: settled, value
    oldUri,            \* the git-show locator: path and query
    provider,          \* the content provider registration: "none", "registered", "disposed"
    diff,              \* the vscode.diff command: "none", "opening", "opened", "failed"
    contents,          \* what provideTextDocumentContent has produced
    timers,            \* pending setTimeout callbacks: [due, delay]
    now,               \* the clock, in seconds
    diffSettledAt,     \* clock value when the vscode.diff promise settled, -1 before
    disposedAt,        \* clock value when the registration was disposed, -1 before
    remoteUrl,         \* stdout of `git config --get remote.origin.url`
    branch,            \* stdout of `git branch --show-current`
    webUrl,            \* let webUrl, after normalization
    fileUrl,           \* let fileUrl, as handed to openExternal
    cursorLine,        \* editor.selection.active.line as read, -1 when not read
    external           \* openExternal: "none", "opening", "opened", "failed"

vars == <<activeTextEditor, pc, cmd, filePath, execs, notifications, logOutput, items,
          quickPick, promise, oldUri, provider, diff, contents, timers, now,
          diffSettledAt, disposedAt, remoteUrl, branch, webUrl, fileUrl, cursorLine,
          external>>

compareVars == <<logOutput, items, quickPick, promise, oldUri, provider, diff, contents,
                 timers, diffSettledAt, disposedAt>>
remoteVars == <<remoteUrl, branch, webUrl, fileUrl, cursorLine, external>>

Undefined == [defined |-> FALSE, hash |-> <<>>]

Init ==
    /\ activeTextEditor \in Editors
    /\ pc = "idle"
    /\ cmd = "none"
    /\ filePath = <<>>
    /\ execs = [c \in GitCommands |-> [started |-> 0, completed |-> 0, failed |-> 0]]
    /\ notifications = <<>>
    /\ logOutput = <<>>
    /\ items = <<>>
    /\ quickPick = [shown |-> FALSE, value |-> <<>>, selectedItems |-> <<>>,
                    disposed |-> FALSE, acceptFired |-> FALSE, hideFired |-> FALSE]
    /\ promise = [settled |-> FALSE, value |-> Undefined]
    /\ oldUri = [path |-> <<>>, query |-> <<>>]
    /\ provider = "none"
    /\ diff = "none"
    /\ contents = {}
    /\ timers = {}
    /\ now = 0
    /\ diffSettledAt = -1
    /\ disposedAt = -1
    /\ remoteUrl = <<>>
    /\ branch = <<>>
    /\ webUrl = <<>>
    /\ fileUrl = <<>>
    /\ cursorLine = -1
    /\ external = "none"

\* ------------------------------------------------------- shared operations

ErrorMessage(text) == [kind |-> "error", text |-> text]
InformationMessage(text) == [kind |-> "info", text |-> text]

ExecComplete(c) == [execs EXCEPT ![c].completed = @ + 1]
ExecFail(c) == [execs EXCEPT ![c].completed = @ + 1, ![c].failed = @ + 1]

\* const filePath = uri?.fsPath || vscode.window.activeTextEditor?.document.fileName
ResolveFilePath(uri) ==
    IF uri.present /\ uri.fsPath # <<>> THEN uri.fsPath
    ELSE IF activeTextEditor.present THEN activeTextEditor.fileName
    ELSE <<>>

\* The git calls in `cs` are started.
ExecStartAll(cs) == [c \in GitCommands |->
                        IF c \in cs THEN [execs[c] EXCEPT !.started = @ + 1] ELSE execs[c]]

\* The context resolution every command starts with; `firsts` holds the git calls the
\* command has started when it first suspends (none when it awaits the clipboard).
ResolveContext(c, uri, firsts, awaiting) ==
    /\ pc = "idle"
    /\ cmd' = c
    /\ LET f == ResolveFilePath(uri) IN
       /\ filePath' = f
       /\ IF f = <<>>
          THEN /\ notifications' = Append(notifications, ErrorMessage("No file selected"))
               /\ pc' = "done"
               /\ execs' = execs
          ELSE IF GetWorkspaceFolder(f) = <<>>
          THEN /\ notifications' = Append(notifications, ErrorMessage("File is not in a workspace"))
               /\ pc' = "done"
               /\ execs' = execs
          ELSE /\ notifications' = notifications
               /\ pc' = awaiting
               /\ execs' = ExecStartAll(firsts)
    /\ UNCHANGED <<activeTextEditor, now>>
    /\ UNCHANGED compareVars
    /\ UNCHANGED remoteVars

\* The catch block at the command boundary.
CatchError == Append(notifications, ErrorMessage("Error: tool failure"))

\* ------------------------------------------------------------- openRemote

\* Lines 208-217: trim, rewrite the SSH short form, drop the .git suffix.
NormalizeRemote(url) ==
    LET trimmed == Trim(url)
        rewritten == IF StartsWith(trimmed, GitAt)
                     THEN ReplaceFirst(ReplaceFirst(trimmed, GitAt, HttpsScheme), <<":">>, <<"/">>)
                     ELSE trimmed
    IN  IF EndsWith(rewritten, DotGit)
        THEN SubSeq(rewritten, 1, Len(rewritten) - Len(DotGit))
        ELSE rewritten

\* A faulty variant: the GitLab signature is tested before the GitHub one.
BuildPathUrlGitlabFirst(base, currentBranch, relativePath) ==
    IF Includes(base, GitlabCom)
    THEN base \o SlashDashBlob \o currentBranch \o <<"/">> \o relativePath
    ELSE IF Includes(base, GithubCom)
    THEN base \o SlashBlob \o currentBranch \o <<"/">> \o relativePath
    ELSE IF Includes(base, BitbucketOrg)
    THEN base \o SlashSrc \o currentBranch \o <<"/">> \o relativePath
    ELSE base \o SlashBlob \o currentBranch \o <<"/">> \o relativePath

\* Lines 223-232: the path template, by host signature.
BuildPathUrl(base, currentBranch, relativePath) ==
    IF Includes(base, GithubCom)
    THEN base \o SlashBlob \o currentBranch \o <<"/">> \o relativePath
    ELSE IF Includes(base, GitlabCom)
    THEN base \o SlashDashBlob \o currentBranch \o <<"/">> \o relativePath
    ELSE IF Includes(base, BitbucketOrg)
    THEN base \o SlashSrc \o currentBranch \o <<"/">> \o relativePath
    ELSE base \o SlashBlob \o currentBranch \o <<"/">> \o relativePath

\* Lines 238-244: the line fragment, by host signature; nothing for other hosts.
LineFragment(base, lineNumber) ==
    IF Includes(base, GithubCom) THEN HashL \o ToStr(lineNumber)
    ELSE IF Includes(base, GitlabCom) THEN HashL \o ToStr(lineNumber)
    ELSE IF Includes(base, BitbucketOrg) THEN HashLines \o ToStr(lineNumber)
    ELSE <<>>

\* Line 236: editor && editor.document.fileName === filePath
LineCaptured(editor, f) == editor.present /\ editor.fileName = f

\* A faulty variant: the 0-indexed line is used as it is.
LineNumberZeroIndexed(line) == line

\* Line 237: const lineNumber = editor.selection.active.line + 1
LineNumberOf(line) == line + 1

\* A faulty variant: both reads are started before the first await.
OpenRemoteFirstReadsBoth == {"remoteUrl", "currentBranch"}

\* Line 196: the git calls started when openRemote first suspends.
OpenRemoteFirstReads == {"remoteUrl"}

InvokeOpenRemote(uri) ==
    ResolveContext("openRemote", uri, OpenRemoteFirstReads, "awaitRemoteUrl")

\* Line 196 settles. On success the next await (line 201) is started.
RemoteUrlSettled(ok, out) ==
    /\ cmd = "openRemote" /\ pc = "awaitRemoteUrl"
    /\ IF ok
       THEN /\ remoteUrl' = out
            /\ execs' = [ExecComplete("remoteUrl") EXCEPT !["currentBranch"].started = @ + 1]
            /\ pc' = "awaitCurrentBranch"
            /\ notifications' = notifications
       ELSE /\ remoteUrl' = remoteUrl
            /\ execs' = ExecFail("remoteUrl")
            /\ pc' = "done"
            /\ notifications' = CatchError
    /\ UNCHANGED <<activeTextEditor, cmd, filePath, now, branch, webUrl, fileUrl,
                   cursorLine, external>>
    /\ UNCHANGED compareVars

\* Line 201 settles. On success lines 205-248 run up to the await of openExternal.
CurrentBranchSettled(ok, out, line) ==
    /\ cmd = "openRemote" /\ pc = "awaitCurrentBranch"
    /\ execs' = IF ok THEN ExecComplete("currentBranch") ELSE ExecFail("currentBranch")
    /\ IF ok
       THEN LET relativePath == Relative(GetWorkspaceFolder(filePath), filePath)
                base == NormalizeRemote(remoteUrl)
                currentBranch == Trim(out)
                pathUrl == BuildPathUrl(base, currentBranch, relativePath)
                captured == LineCaptured(activeTextEditor, filePath)
            IN  /\ branch' = out
                /\ webUrl' = base
                /\ cursorLine' = IF captured THEN line ELSE -1
                /\ fileUrl' = IF captured
                              THEN pathUrl \o LineFragment(base, LineNumberOf(line))
                              ELSE pathUrl
                /\ external' = "opening"
                /\ pc' = "awaitOpenExternal"
                /\ notifications' = notifications
       ELSE /\ pc' = "done"
            /\ notifications' = CatchError
            /\ UNCHANGED <<branch, webUrl, cursorLine, fileUrl, external>>
    /\ UNCHANGED <<activeTextEditor, cmd, filePath, now, remoteUrl>>
    /\ UNCHANGED compareVars

\* Line 248 settles.
OpenExternalSettled(ok) ==
    /\ cmd = "openRemote" /\ pc = "awaitOpenExternal"
    /\ external' = IF ok THEN "opened" ELSE "failed"
    /\ notifications' = IF ok THEN notifications ELSE CatchError
    /\ pc' = "done"
    /\ UNCHANGED <<activeTextEditor, cmd, filePath, execs, now, remoteUrl, branch, webUrl,
                   fileUrl, cursorLine>>
    /\ UNCHANGED compareVars

\* ------------------------------------------- compareWithRevision: the list

\* Delay of the release timer, in milliseconds (lines 108 and 173).
ReleaseDelayMs == 10000

\* A faulty variant: blank lines are kept.
ParseCommitsUnfiltered(out) == Split(Trim(out), "\n")

\* Line 27: logOutput.trim().split('\n').filter(line => line.trim())
ParseCommits(out) ==
    SelectSeq(Split(Trim(out), "\n"), LAMBDA line : Trim(line) # <<>>)

\* Lines 34-41: one quick pick row per line, split on the first blank.
ItemOf(commit) ==
    LET parts == Split(commit, " ") IN
    [label |-> parts[1], description |-> Join(Tail(parts), " "), hash |-> parts[1]]

ItemsOf(commits) == [i \in 1..Len(commits) |-> ItemOf(commits[i])]

InvokeCompareWithRevision(uri) ==
    ResolveContext("compareWithRevision", uri, {"branchList"}, "awaitBranchList")

\* Line 23 settles. On success lines 27-69 run up to the await of the selection.
BranchListSettled(ok, out) ==
    /\ cmd = "compareWithRevision" /\ pc = "awaitBranchList"
    /\ execs' = IF ok THEN ExecComplete("branchList") ELSE ExecFail("branchList")
    /\ IF ~ok
       THEN /\ pc' = "done"
            /\ notifications' = CatchError
            /\ UNCHANGED <<logOutput, items, quickPick>>
       ELSE /\ logOutput' = out
            /\ IF ParseCommits(out) = <<>>
               THEN /\ notifications' =
                         Append(notifications, InformationMessage("No commits found for this file"))
                    /\ pc' = "done"
                    /\ UNCHANGED <<items, quickPick>>
               ELSE /\ items' = ItemsOf(ParseCommits(out))
                    /\ quickPick' = [quickPick EXCEPT !.shown = TRUE]
                    /\ pc' = "awaitSelection"
                    /\ notifications' = notifications
    /\ UNCHANGED <<activeTextEditor, cmd, filePath, now, promise, oldUri, provider, diff,
                   contents, timers, diffSettledAt, disposedAt>>
    /\ UNCHANGED remoteVars

\* ------------------------------------------ compareWithRevision: the prompt

\* A faulty variant: every call of resolve replaces the value.
ResolveLastWins(p, v) == [settled |-> TRUE, value |-> v]

\* resolve(v) of the promise of line 48: only the first call settles it.
Resolve(p, v) == IF p.settled THEN p ELSE [settled |-> TRUE, value |-> v]

\* Line 53: items.find(item => item.label === label), Undefined when none.
FindByLabel(list, label) ==
    IF \E i \in 1..Len(list) : list[i].label = label
    THEN LET i == CHOOSE k \in 1..Len(list) :
                     /\ list[k].label = label
                     /\ \A j \in 1..(k - 1) : list[j].label # label
         IN  [defined |-> TRUE, hash |-> list[i].hash]
    ELSE Undefined

\* A faulty variant: typed text is tested before the selection.
AcceptResultTypedFirst(list, selectedItems, value) ==
    IF value # <<>>
    THEN [defined |-> TRUE, hash |-> value]
    ELSE IF selectedItems # <<>>
    THEN FindByLabel(list, selectedItems[1].label)
    ELSE Undefined

\* Lines 50-60: what the accept handler passes to resolve.
AcceptResult(list, selectedItems, value) ==
    IF selectedItems # <<>>
    THEN FindByLabel(list, selectedItems[1].label)
    ELSE IF value # <<>>
    THEN [defined |-> TRUE, hash |-> value]
    ELSE Undefined

\* Lines 64-67: what the hide handler passes to resolve.
HideResult == Undefined

\* What the quick pick can hold when it is accepted: at most one row of the list,
\* and any text typed.
Selections == {<<>>} \cup {<<items[i]>> : i \in 1..Len(items)}
Values == {<<>>} \cup TypedTexts

\* The handler of onDidAccept (lines 49-62), reading the quick pick as the user left it.
OnDidAccept(selectedItems, value) ==
    /\ cmd = "compareWithRevision"
    /\ quickPick.shown /\ ~quickPick.acceptFired
    /\ quickPick' = [quickPick EXCEPT !.selectedItems = selectedItems, !.value = value,
                                      !.acceptFired = TRUE, !.disposed = TRUE]
    /\ promise' = Resolve(promise, AcceptResult(items, selectedItems, value))
    /\ UNCHANGED <<activeTextEditor, pc, cmd, filePath, execs, notifications, logOutput,
                   items, oldUri, provider, diff, contents, timers, now, diffSettledAt,
                   disposedAt>>
    /\ UNCHANGED remoteVars

\* The handler of onDidHide (lines 64-67): on dismissal, and after a dispose.
OnDidHide ==
    /\ cmd = "compareWithRevision"
    /\ quickPick.shown /\ ~quickPick.hideFired
    /\ quickPick' = [quickPick EXCEPT !.hideFired = TRUE, !.disposed = TRUE]
    /\ promise' = Resolve(promise, HideResult)
    /\ UNCHANGED <<activeTextEditor, pc, cmd, filePath, execs, notifications, logOutput,
                   items, oldUri, provider, diff, contents, timers, now, diffSettledAt,
                   disposedAt>>
    /\ UNCHANGED remoteVars

\* A faulty variant: the check of line 72 is missing.
IsCancelledNever(selectedItem) == FALSE

\* Line 72: if (!selectedItem) return
IsCancelled(selectedItem) == ~selectedItem.defined

\* The await of line 48 resumes: lines 72-104 up to the await of vscode.diff.
SelectionResumed ==
    /\ cmd = "compareWithRevision" /\ pc = "awaitSelection"
    /\ promise.settled
    /\ IF IsCancelled(promise.value)
       THEN /\ pc' = "done"
            /\ UNCHANGED <<oldUri, provider, diff>>
       ELSE /\ oldUri' = [path |-> Relative(GetWorkspaceFolder(filePath), filePath),
                          query |-> promise.value.hash]
            /\ provider' = "registered"
            /\ diff' = "opening"
            /\ pc' = "awaitDiff"
    /\ UNCHANGED <<activeTextEditor, cmd, filePath, execs, notifications, logOutput, items,
                   quickPick, promise, contents, timers, now, diffSettledAt, disposedAt>>
    /\ UNCHANGED remoteVars

\* --------------------------------------------------------- compareWithHash

InvokeCompareWithHash(uri) ==
    ResolveContext("compareWithHash", uri, {}, "awaitClipboard")

\* Line 131 settles: lines 132-169 up to the await of vscode.diff.
ClipboardSettled(ok, clipboardContent) ==
    /\ cmd = "compareWithHash" /\ pc = "awaitClipboard"
    /\ IF ~ok
       THEN /\ pc' = "done"
            /\ notifications' = CatchError
            /\ UNCHANGED <<oldUri, provider, diff>>
       ELSE IF Trim(clipboardContent) = <<>>
       THEN /\ pc' = "done"
            /\ notifications' = Append(notifications, ErrorMessage("Clipboard is empty"))
            /\ UNCHANGED <<oldUri, provider, diff>>
       ELSE /\ oldUri' = [path |-> Relative(GetWorkspaceFolder(filePath), filePath),
                          query |-> Trim(clipboardContent)]
            /\ provider' = "registered"
            /\ diff' = "opening"
            /\ pc' = "awaitDiff"
            /\ notifications' = notifications
    /\ UNCHANGED <<activeTextEditor, cmd, filePath, execs, logOutput, items, quickPick,
                   promise, contents, timers, now, diffSettledAt, disposedAt>>
    /\ UNCHANGED remoteVars

\* ------------------------------------- the diff view, the provider, the timer

\* A faulty variant: the release is scheduled after the try block, not in a finally block.
ReleaseScheduledOnSuccess(ok, pending, clock) ==
    IF ok
    THEN pending \cup {[due |-> clock + ReleaseDelayMs \div 1000, delay |-> ReleaseDelayMs]}
    ELSE pending

\* Lines 106-109 and 171-174: the finally block, run however vscode.diff settled.
ReleaseScheduled(ok, pending, clock) ==
    pending \cup {[due |-> clock + ReleaseDelayMs \div 1000, delay |-> ReleaseDelayMs]}

\* Lines 104 and 169 settle: the finally block, then the catch block on failure.
DiffSettled(ok) ==
    /\ cmd \in {"compareWithRevision", "compareWithHash"} /\ pc = "awaitDiff"
    /\ diff' = IF ok THEN "opened" ELSE "failed"
    /\ timers' = ReleaseScheduled(ok, timers, now)
    /\ diffSettledAt' = now
    /\ notifications' = IF ok THEN notifications ELSE CatchError
    /\ pc' = "done"
    /\ UNCHANGED <<activeTextEditor, cmd, filePath, execs, logOutput, items, quickPick,
                   promise, oldUri, provider, contents, disposedAt, now>>
    /\ UNCHANGED remoteVars

\* What `git show rev:"path"` can print.
ShowOutputs == {<<"x">>}

\* A faulty variant: no catch block, the failure of the tool call is thrown on.
ProvideResultRethrows(ok, out) ==
    IF ok
    THEN [ok |-> TRUE, thrown |-> FALSE, text |-> out]
    ELSE [ok |-> FALSE, thrown |-> TRUE, text |-> ToolError]

\* Lines 86-97 and 151-162: the try/catch of provideTextDocumentContent.
ProvideResult(ok, out) ==
    IF ok
    THEN [ok |-> TRUE, thrown |-> FALSE, text |-> out]
    ELSE [ok |-> FALSE, thrown |-> FALSE, text |-> ErrorLoadingContent \o ColonSpace \o ToolError]

\* The diff view dereferences the locator while the provider is registered.
ProvideTextDocumentContent(ok, out) ==
    /\ provider = "registered"
    /\ execs["show"].started < MaxFetches
    /\ execs' = [execs EXCEPT !["show"].started = @ + 1, !["show"].completed = @ + 1,
                              !["show"].failed = IF ok THEN @ ELSE @ + 1]
    /\ contents' = contents \cup {ProvideResult(ok, out)}
    /\ UNCHANGED <<activeTextEditor, pc, cmd, filePath, notifications, logOutput, items,
                   quickPick, promise, oldUri, provider, diff, timers, now, diffSettledAt,
                   disposedAt>>
    /\ UNCHANGED remoteVars

\* The callback of setTimeout (lines 108 and 173): disposable.dispose().
TimerFired ==
    /\ \E t \in timers :
          /\ now >= t.due
          /\ timers' = timers \ {t}
    /\ provider' = "disposed"
    /\ disposedAt' = now
    /\ UNCHANGED <<activeTextEditor, pc, cmd, filePath, execs, notifications, logOutput,
                   items, quickPick, promise, oldUri, diff, contents, now, diffSettledAt>>
    /\ UNCHANGED remoteVars

\* The earliest time a pending timer is due.
NextDue(pending) == CHOOSE d \in {t.due : t \in pending} : \A t \in pending : d <= t.due

\* Time passes: to the next due timer when one is pending (a due timer runs before
\* the clock moves on), by one second otherwise.
Tick ==
    /\ \/ /\ timers # {} /\ \A t \in timers : now < t.due
          /\ now' = NextDue(timers)
       \/ /\ timers = {} /\ now < MaxClock
          /\ now' = now + 1
    /\ UNCHANGED <<activeTextEditor, pc, cmd, filePath, execs, notifications>>
    /\ UNCHANGED compareVars
    /\ UNCHANGED remoteVars

CompareNext ==
    \/ \E uri \in Uris : InvokeCompareWithRevision(uri)
    \/ \E ok \in BOOLEAN, out \in LogOutputs : BranchListSettled(ok, out)
    \/ \E sel \in Selections, value \in Values : OnDidAccept(sel, value)
    \/ OnDidHide
    \/ SelectionResumed
    \/ \E uri \in Uris : InvokeCompareWithHash(uri)
    \/ \E ok \in BOOLEAN, text \in ClipboardTexts : ClipboardSettled(ok, text)
    \/ \E ok \in BOOLEAN : DiffSettled(ok)
    \/ \E ok \in BOOLEAN, out \in ShowOutputs : ProvideTextDocumentContent(ok, out)
    \/ TimerFired
    \/ Tick

RemoteNext ==
    \/ \E uri \in Uris : InvokeOpenRemote(uri)
    \/ \E ok \in BOOLEAN, out \in RemoteOutputs : RemoteUrlSettled(ok, out)
    \/ \E ok \in BOOLEAN, out \in BranchOutputs, line \in 0..MaxLine :
          CurrentBranchSettled(ok, out, line)
    \/ \E ok \in BOOLEAN : OpenExternalSettled(ok)

Next == CompareNext \/ RemoteNext

Spec == Init /\ [][Next]_vars

\* The event loop runs a due timer, time passes, and the vscode.diff command settles.
LiveSpec ==
    /\ Spec
    /\ WF_vars(Tick)
    /\ WF_vars(TimerFired)
    /\ WF_vars(\E ok \in BOOLEAN : DiffSettled(ok))


\* ------------------------------------------------------ claims: openRemote

\* The invocation has built its URL and handed it to openExternal.
UrlBuilt == cmd = "openRemote" /\ external # "none"

\* C1: every SSH short form git@host:group/repo.git, with or without the newline git
\* prints, is normalized to exactly https://host/group/repo.
C1_SshFormNormalized ==
    UrlBuilt =>
        \A h \in RemoteHosts, p \in RemotePaths, nl \in {<<>>, <<"\n">>} :
            remoteUrl = SshForm(h, p) \o nl => webUrl = HttpsScheme \o h \o <<"/">> \o p

\* What the code yields instead for the SSH short form: the first colon replaced is
\* the one of the scheme just inserted, and the host's colon stays.
C1_SshFormAsCoded ==
    UrlBuilt =>
        \A h \in RemoteHosts, p \in RemotePaths, nl \in {<<>>, <<"\n">>} :
            remoteUrl = SshForm(h, p) \o nl =>
                webUrl = <<"h", "t", "t", "p", "s", "/", "/", "/">> \o h \o <<":">> \o p

\* The host a base URL resolves to: the first signature it contains, in table order.
HostOf(base) ==
    IF Includes(base, GithubCom) THEN "github"
    ELSE IF Includes(base, GitlabCom) THEN "gitlab"
    ELSE IF Includes(base, BitbucketOrg) THEN "bitbucket"
    ELSE "generic"

\* The table of section 4.4, one row per host: path template and line fragment.
TableUrl(base, br, path, n) ==
    CASE HostOf(base) = "github" ->
            base \o SlashBlob \o br \o <<"/">> \o path \o HashL \o ToStr(n)
      [] HostOf(base) = "gitlab" ->
            base \o SlashDashBlob \o br \o <<"/">> \o path \o HashL \o ToStr(n)
      [] HostOf(base) = "bitbucket" ->
            base \o SlashSrc \o br \o <<"/">> \o path \o HashLines \o ToStr(n)
      [] OTHER ->
            base \o SlashBlob \o br \o <<"/">> \o path

\* C2: with a captured line number n, the file URL is the table row of the first
\* matching host, which decides both the path template and the fragment shape.
C2_FirstHostDecidesUrl ==
    (UrlBuilt /\ cursorLine >= 0) =>
        fileUrl = TableUrl(webUrl, Trim(branch),
                           Relative(WorkspaceRoot, filePath), cursorLine + 1)

\* C2 witness: a base with two signatures (gitlab.com host, github.com in the path)
\* resolved as GitHub, with a two-digit line number.
C2_Witness ==
    /\ UrlBuilt /\ cursorLine = 9
    /\ Includes(webUrl, GitlabCom) /\ Includes(webUrl, GithubCom)
    /\ IndexOf(webUrl, GitlabCom) < IndexOf(webUrl, GithubCom)
    /\ EndsWith(fileUrl, <<"#", "L", "1", "0">>)
    /\ ~Includes(fileUrl, SlashDashBlob)

\* The text after the first '#' of a URL.
FragmentOf(url) == SubSeq(url, IndexOf(url, <<"#">>) + 1, Len(url))

\* C3: the URL carries a fragment only if the active editor shows the file operated
\* on; its number is then the cursor line plus 1; otherwise there is no fragment.
C3_FragmentOnlyWhenCaptured ==
    UrlBuilt =>
        IF activeTextEditor.present /\ activeTextEditor.fileName = filePath
        THEN /\ cursorLine \in 0..MaxLine
             /\ Includes(fileUrl, <<"#">>) =>
                    FragmentOf(fileUrl) \in {<<"L">> \o ToStr(cursorLine + 1),
                                             <<"l", "i", "n", "e", "s", "-">> \o ToStr(cursorLine + 1)}
             /\ HostOf(webUrl) # "generic" => Includes(fileUrl, <<"#">>)
        ELSE ~Includes(fileUrl, <<"#">>)

\* C3 witnesses: a fragment for cursor line 9, and no fragment on a known host when
\* the active editor shows another file.
C3_Witness ==
    /\ UrlBuilt /\ cursorLine = 9 /\ FragmentOf(fileUrl) = <<"l", "i", "n", "e", "s", "-", "1", "0">>

C3_WitnessOtherFile ==
    /\ UrlBuilt /\ activeTextEditor.present /\ activeTextEditor.fileName # filePath
    /\ HostOf(webUrl) = "github" /\ ~Includes(fileUrl, <<"#">>)

\* C7 as claimed: the two reads are concurrent, so the step that starts the branch
\* read happens while the origin read has not completed; and both are joined.
C7_IssuedConcurrently ==
    [][execs'["currentBranch"].started > execs["currentBranch"].started
          => execs'["remoteUrl"].completed = 0]_vars

\* C7 as amended: the reads are sequential. The branch read is started only once the
\* origin read has completed, and the URL is built only after both have completed.
C7_IssuedSequentially ==
    /\ execs["currentBranch"].started > 0 => execs["remoteUrl"].completed > 0
    /\ UrlBuilt => execs["remoteUrl"].completed = 1 /\ execs["currentBranch"].completed = 1

C7_Witness ==
    UrlBuilt /\ execs["remoteUrl"].completed = 1 /\ execs["currentBranch"].completed = 1

\* ------------------------------------------------- claims: compare commands

\* Calls of the git tool started so far, over all commands.
ExecsStarted ==
    execs["branchList"].started + execs["show"].started
        + execs["remoteUrl"].started + execs["currentBranch"].started

\* Nothing has happened beyond the branch listing: no further git call, no provider,
\* no diff view, no timer.
NothingBeyondListing ==
    /\ ExecsStarted = 1 /\ execs["branchList"].started = 1
    /\ provider = "none" /\ diff = "none" /\ timers = {} /\ contents = {}
    /\ oldUri = [path |-> <<>>, query |-> <<>>]

\* The three-way policy of section 4.2, as a result for what the prompt held.
PolicyResult(selectedItems, value) ==
    IF selectedItems # <<>> THEN [defined |-> TRUE, hash |-> selectedItems[1].hash]
    ELSE IF value # <<>> THEN [defined |-> TRUE, hash |-> value]
    ELSE Undefined

\* C4: when accept is the event that settled the prompt, the result is the selected
\* row's identifier, else the typed text verbatim, else no selection; when hide is
\* the event that settled it, the result is no selection.
C4_ThreeWayPolicy ==
    /\ (promise.settled /\ quickPick.acceptFired /\ ~quickPick.hideFired) =>
            promise.value = PolicyResult(quickPick.selectedItems, quickPick.value)
    /\ (promise.settled /\ quickPick.hideFired /\ ~quickPick.acceptFired) =>
            promise.value = Undefined
    /\ (pc = "awaitDiff" /\ cmd = "compareWithRevision") =>
            /\ promise.value.defined
            /\ oldUri.query = promise.value.hash

\* C4 witness: text typed with no row selected becomes the identifier verbatim, while
\* the list holds rows.
C4_Witness ==
    /\ quickPick.acceptFired /\ ~quickPick.hideFired
    /\ quickPick.selectedItems = <<>> /\ quickPick.value = <<"d", "e", "a", "d">>
    /\ Len(items) = 2
    /\ pc = "awaitDiff" /\ oldUri.query = <<"d", "e", "a", "d">>

\* C4 witness: a selected row wins over typed text, also when an earlier row has the
\* same label.
C4_WitnessSelected ==
    /\ quickPick.acceptFired /\ Len(items) = 2
    /\ quickPick.selectedItems = <<items[2]>> /\ items[1].label = items[2].label
    /\ quickPick.value = <<"d", "e", "a", "d">>
    /\ promise.value = [defined |-> TRUE, hash |-> items[2].hash]

\* C5: once the prompt has resolved to no selection the invocation ends silently:
\* no further git call, no provider, no diff view, no timer, no notification.
C5_SilentCancellation ==
    (cmd = "compareWithRevision" /\ promise.settled /\ ~promise.value.defined) =>
        /\ pc \in {"awaitSelection", "done"}
        /\ NothingBeyondListing
        /\ notifications = <<>>

C5_Witness ==
    /\ cmd = "compareWithRevision" /\ pc = "done"
    /\ promise.settled /\ ~promise.value.defined
    /\ quickPick.hideFired /\ ~quickPick.acceptFired
    /\ now > 0

\* The registration is released ReleaseDelayMs after the view-open step settled.
ReleaseDue == diffSettledAt + ReleaseDelayMs \div 1000

\* C6: a provider is registered before the diff view is opened; once the view-open
\* step has settled, with success or failure, a release is pending 10 seconds after
\* that moment or has run at that time; and every registration is disposed in the end.
C6_Safety ==
    /\ diff # "none" => provider # "none"
    /\ (provider = "registered" /\ diff = "opening") => (timers = {} /\ diffSettledAt = -1)
    /\ diff \in {"opened", "failed"} =>
          /\ diffSettledAt >= 0
          /\ \/ /\ provider = "registered"
                /\ timers = {[due |-> ReleaseDue, delay |-> 10000]}
                /\ now <= ReleaseDue
             \/ /\ provider = "disposed"
                /\ timers = {}
                /\ disposedAt = ReleaseDue

\* C6: the safety part above holds always, and every registered provider is
\* eventually disposed.
C6_ReleasedAfterDelay ==
    /\ []C6_Safety
    /\ (provider = "registered") ~> (provider = "disposed")

\* C6 witness: the view-open step failed some time after the start, and the
\* registration was released 10 seconds later.
C6_Witness ==
    /\ provider = "disposed" /\ diff = "failed"
    /\ diffSettledAt > 0 /\ disposedAt = diffSettledAt + 10

\* A text with no non-blank line.
AllBlank(out) == \A i \in 1..Len(out) : IsSpace(out[i])

\* C8: a branch listing with no non-blank line gives an empty list, one informational
\* message and nothing else: no prompt, no further call, no provider, no diff view.
C8_EmptyListingIsInformational ==
    (/\ cmd = "compareWithRevision"
     /\ execs["branchList"].completed = 1 /\ execs["branchList"].failed = 0
     /\ AllBlank(logOutput)) =>
        /\ pc = "done"
        /\ items = <<>>
        /\ notifications = <<[kind |-> "info", text |-> "No commits found for this file"]>>
        /\ ~quickPick.shown /\ ~promise.settled
        /\ NothingBeyondListing

C8_Witness ==
    /\ cmd = "compareWithRevision" /\ pc = "done"
    /\ execs["branchList"].completed = 1 /\ execs["branchList"].failed = 0
    /\ logOutput = <<" ", "\n", " ">>
    /\ Len(notifications) = 1

\* C9: dereferencing the locator never throws. A failed tool call yields a string
\* starting with the error indicator, a successful one the tool's output, and the
\* failure shows no error notification.
C9_FetchNeverThrows ==
    /\ \A c \in contents :
          /\ ~c.thrown
          /\ c.ok => c.text \in ShowOutputs
          /\ ~c.ok => StartsWith(c.text, ErrorLoadingContent)
    /\ (execs["show"].failed > 0 /\ diff \in {"opening", "opened"}) => notifications = <<>>

C9_Witness ==
    /\ execs["show"].failed > 0 /\ diff = "opened" /\ pc = "done"
    /\ \E c \in contents : ~c.ok /\ StartsWith(c.text, ErrorLoadingContent)
    /\ notifications = <<>>

\* C10: the pending selection is settled by the first event and never again: once
\* settled it keeps its value, whichever event fires later; every event leaves it
\* settled; and a hide that finds it pending settles it as no selection.
C10_SettledOnce ==
    /\ [][promise.settled => promise' = promise]_vars
    /\ [][(~promise.settled /\ quickPick'.hideFired /\ ~quickPick.hideFired)
            => promise' = [settled |-> TRUE, value |-> Undefined]]_vars
    /\ []((quickPick.acceptFired \/ quickPick.hideFired) => promise.settled)

\* C10 witness: accept settled the selection with an identifier, the hide that
\* followed left it in place.
C10_Witness ==
    /\ quickPick.acceptFired /\ quickPick.hideFired
    /\ promise.settled /\ promise.value.defined
    /\ pc = "awaitSelection"

====
